---- MODULE Spec2Model ----
(***************************************************************************)
(* A model of gobson (package bson): the BSON encoder (encode.go), the     *)
(* Marshal entry point with its panic-to-error boundary, the field-schema  *)
(* cache and the ObjectId generator (gobson.go).                           *)
(*                                                                         *)
(* Conventions.  A Go string or []byte is a sequence of byte values.  A    *)
(* Go int32 is a TLA+ integer in MinInt32..MaxInt32.  A 64-bit quantity    *)
(* (int64, uint64, the bits of a float64) is a record [hi, lo] of two      *)
(* 32-bit words, each held as the signed reading of its bit pattern, so    *)
(* that the 64-bit pattern is hi * 2^32 + (lo mod 2^32).  A reflect.Value  *)
(* is a record whose field k is the reflect.Kind.                          *)
(***************************************************************************)
EXTENDS Integers, Sequences, FiniteSets, TLC

VARIABLES
    platform,        \* the build: widths of int/uint and uintptr, reflect's read-only check
    fieldMap,        \* gobson.go:423  the schema cache, full type name -> *structFields
    in,              \* the argument of the last Marshal call
    ret,             \* what the last Marshal call gave back: out, err, or an escaped panic
    pc,              \* "idle", or "done" while the caller holds the last call's result
    objectIdCounter, \* gobson.go:136  uint32, held as the signed reading of its 32 bits
    machineId,       \* gobson.go:140  the []byte header: nil, half written, or set
    idEnv,           \* what the process is given: its pid, the md5 of the hostname, ...
    idProc,          \* each goroutine's position and locals in NewObjectId
    idHist,          \* the ids NewObjectId has returned, in order of return
    idIncs,          \* the number of increments of objectIdCounter made so far
    idCalls,         \* the number of NewObjectId and NewObjectIdSeconds calls begun
    fieldMapMutex,   \* gobson.go:424  the RWMutex: its readers and its writer
    cProc,           \* each goroutine's position and locals in getStructFields
    cCalls           \* the number of getStructFields calls begun

seqVars == <<platform, in, ret, pc>>
idVars == <<objectIdCounter, machineId, idEnv, idProc, idHist, idIncs, idCalls>>
cacheVars == <<fieldMapMutex, cProc, cCalls>>
vars == <<platform, fieldMap, in, ret, pc, objectIdCounter, machineId, idEnv, idProc,
          idHist, idIncs, idCalls, fieldMapMutex, cProc, cCalls>>

-----------------------------------------------------------------------------
(* Machine integers *)

MaxInt32 == 2147483647
MinInt32 == -MaxInt32 - 1

\* byte(u >> (8*k)) of a 32-bit pattern held as a signed integer
ByteOf32(v, k) ==
    LET d == CASE k = 0 -> 1 [] k = 1 -> 256 [] k = 2 -> 65536 [] k = 3 -> 16777216
    IN  (v \div d) % 256

\* the four bytes of a 32-bit pattern, least significant first
LE32(v) == << ByteOf32(v, 0), ByteOf32(v, 1), ByteOf32(v, 2), ByteOf32(v, 3) >>

I64(hi, lo) == [hi |-> hi, lo |-> lo]

\* int64(x) of an int32 x: sign extension
Int64OfInt32(x) == I64(IF x < 0 THEN -1 ELSE 0, x)

\* int32(x) of an int64 x: the low word
Int32OfInt64(x) == x.lo

\* unsigned order of two 32-bit patterns
LessU32(a, b) ==
    IF (a < 0) = (b < 0) THEN a < b ELSE b < 0

\* x <= y for signed 64-bit values
LeqS64(x, y) ==
    \/ x.hi < y.hi
    \/ x.hi = y.hi /\ (x.lo = y.lo \/ LessU32(x.lo, y.lo))

\* x <= y for unsigned 64-bit values
LeqU64(x, y) ==
    \/ LessU32(x.hi, y.hi)
    \/ x.hi = y.hi /\ (x.lo = y.lo \/ LessU32(x.lo, y.lo))

MaxInt32_64 == Int64OfInt32(MaxInt32)
MinInt32_64 == Int64OfInt32(MinInt32)

\* the eight bytes of a 64-bit pattern, least significant first
Bytes64(x) == LE32(x.lo) \o LE32(x.hi)

\* a 32-bit pattern, signed reading, from four bytes least significant first
Word32(b) ==
    b[1] + 256 * b[2] + 65536 * b[3] + 16777216 * (IF b[4] >= 128 THEN b[4] - 256 ELSE b[4])

FromBytes64(b) == I64(Word32(SubSeq(b, 5, 8)), Word32(SubSeq(b, 1, 4)))

RECURSIVE NegBytes(_, _, _)
\* two's complement negation of little-endian bytes: invert, add one
NegBytes(b, i, carry) ==
    IF i > Len(b) THEN <<>>
    ELSE LET s == (255 - b[i]) + carry
         IN  <<s % 256>> \o NegBytes(b, i + 1, s \div 256)

RECURSIVE DivBytes(_, _, _, _)
\* long division of little-endian bytes by d, most significant byte first
DivBytes(b, i, rem, d) ==
    IF i = 0 THEN <<>>
    ELSE LET cur == rem * 256 + b[i]
         IN  DivBytes(b, i - 1, cur % d, d) \o <<cur \div d>>

\* Go's x / d for int64 x and a small positive d: the quotient truncated toward zero
QuoS64(x, d) ==
    IF x.hi < 0
    THEN FromBytes64(NegBytes(DivBytes(NegBytes(Bytes64(x), 1, 1), 8, 0, d), 1, 1))
    ELSE FromBytes64(DivBytes(Bytes64(x), 8, 0, d))

-----------------------------------------------------------------------------
(* reflect.Kind, in the order package reflect declares the kinds *)

KindNum(k) ==
    CASE k = "Invalid" -> 0 [] k = "Bool" -> 1
      [] k = "Int" -> 2 [] k = "Int8" -> 3 [] k = "Int16" -> 4
      [] k = "Int32" -> 5 [] k = "Int64" -> 6
      [] k = "Uint" -> 7 [] k = "Uint8" -> 8 [] k = "Uint16" -> 9
      [] k = "Uint32" -> 10 [] k = "Uint64" -> 11 [] k = "Uintptr" -> 12
      [] k = "Float32" -> 13 [] k = "Float64" -> 14
      [] k = "Complex64" -> 15 [] k = "Complex128" -> 16
      [] k = "Array" -> 17 [] k = "Chan" -> 18 [] k = "Func" -> 19
      [] k = "Interface" -> 20 [] k = "Map" -> 21 [] k = "Ptr" -> 22
      [] k = "Slice" -> 23 [] k = "String" -> 24 [] k = "Struct" -> 25

SignedKinds == {"Int", "Int8", "Int16", "Int32", "Int64"}
UnsignedKinds == {"Uint", "Uint8", "Uint16", "Uint32", "Uint64", "Uintptr"}

-----------------------------------------------------------------------------
(* Panics.  class is what handleErr's type switch sees in the recovered    *)
(* value: "string", "oserror" (an os.Error), "runtime" (a runtime.Error)   *)
(* or "other"; "none" when nothing was raised.  msg keeps the fixed head   *)
(* of the message and leaves out the type name or number the code adds.    *)

NoPanic == [class |-> "none", msg |-> ""]
Panic(class, msg) == [class |-> class, msg |-> msg]

raise(e, class, msg) == [e EXCEPT !.panic = Panic(class, msg)]

-----------------------------------------------------------------------------
(* Structure schemas: gobson.go, "Maintain a mapping of keys to structure  *)
(* field indexes".  A structure type st is the record reflect gives for    *)
(* it: pkg (PkgPath), name (Name), scope (the declaring scope, which       *)
(* reflect does not report) and fields, each [name, pkgPath, tag] with     *)
(* pkgPath empty for an exported field.                                    *)

zeroFieldInfo == [Key |-> <<>>, Num |-> 0, Conditional |-> FALSE, Short |-> FALSE]

RECURSIVE LastIndexFrom(_, _, _)
LastIndexFrom(s, c, i) ==
    IF i = 0 THEN -1
    ELSE IF s[i] = c THEN i - 1
    ELSE LastIndexFrom(s, c, i - 1)

\* strings.LastIndex(s, sep) for a one-byte separator: a 0-based index, or -1
LastIndex(s, c) == LastIndexFrom(s, c, Len(s))

\* strings.ToLower on ASCII
ToLower(s) == [i \in 1..Len(s) |-> IF s[i] >= 65 /\ s[i] <= 90 THEN s[i] + 32 ELSE s[i]]

RECURSIVE parseFlags(_, _, _)
\* the loop over field.Tag[s+1:]: sets Conditional and Short, panics on any other flag
parseFlags(info, flags, j) ==
    IF j > Len(flags) THEN [info |-> info, panic |-> NoPanic]
    ELSE IF flags[j] = 99 THEN parseFlags([info EXCEPT !.Conditional = TRUE], flags, j + 1)
    ELSE IF flags[j] = 115 THEN parseFlags([info EXCEPT !.Short = TRUE], flags, j + 1)
    ELSE [info |-> info, panic |-> Panic("string", "Unsupported field flag")]

\* one exported field's entry: flags from the tag's suffix, key from the tag or the name
fieldInfoOf(field, i) ==
    LET s == LastIndex(field.tag, 47)
        parsed == IF s # -1
                  THEN parseFlags([zeroFieldInfo EXCEPT !.Num = i],
                                  SubSeq(field.tag, s + 2, Len(field.tag)), 1)
                  ELSE [info |-> [zeroFieldInfo EXCEPT !.Num = i], panic |-> NoPanic]
        tag == IF s # -1 THEN SubSeq(field.tag, 1, s) ELSE field.tag
        key == IF tag # <<>> THEN tag ELSE ToLower(field.name)
    IN  [info |-> [parsed.info EXCEPT !.Key = key], panic |-> parsed.panic]

RECURSIVE deriveFrom(_, _, _, _)
RECURSIVE deriveField(_, _, _, _, _)
\* the loop of getStructFields over the type's fields; fieldsMap is the map built so
\* far, fieldsList the n preallocated entries
deriveFrom(st, i, fieldsMap, fieldsList) ==
    IF i = Len(st.fields)
    THEN [fields |-> [Map |-> fieldsMap,
                      List |-> SubSeq(fieldsList, 1, Cardinality(DOMAIN fieldsMap))],
          err |-> "", panic |-> NoPanic]
    ELSE IF st.fields[i + 1].pkgPath # <<>>
    THEN deriveFrom(st, i + 1, fieldsMap, fieldsList)
    ELSE deriveField(st, i, fieldsMap, fieldsList, fieldInfoOf(st.fields[i + 1], i))

\* the rest of one iteration for an exported field whose entry is r.info: the
\* duplicate test, then the entry goes into the map and the next slot of the list
deriveField(st, i, fieldsMap, fieldsList, r) ==
    IF r.panic.class # "none"
    THEN [fields |-> [Map |-> <<>>, List |-> <<>>], err |-> "", panic |-> r.panic]
    ELSE IF r.info.Key \in DOMAIN fieldsMap
    THEN [fields |-> [Map |-> <<>>, List |-> <<>>],
          err |-> "Duplicated key", panic |-> NoPanic]
    ELSE deriveFrom(st, i + 1,
             [k \in DOMAIN fieldsMap \cup {r.info.Key} |->
                 IF k = r.info.Key THEN r.info ELSE fieldsMap[k]],
             [fieldsList EXCEPT ![Cardinality(DOMAIN fieldsMap) + 1] = r.info])

RECURSIVE makeFieldInfos(_)
\* make([]fieldInfo, n): n zero entries
makeFieldInfos(n) == IF n = 0 THEN <<>> ELSE Append(makeFieldInfos(n - 1), zeroFieldInfo)

\* the derivation half of getStructFields (after a cache miss)
deriveFields(st) ==
    deriveFrom(st, 0, <<>>, makeFieldInfos(Len(st.fields)))

\* path + "." + name
fullNameOf(st) == st.pkg \o <<46>> \o st.name

\* after a miss: d is what the derivation gave; it is inserted under fullName when it
\* succeeded and the type has a name
getStructFieldsMiss(fm, fullName, d) ==
    [fields |-> d.fields, err |-> d.err, panic |-> d.panic,
     fieldMap |-> IF d.err = "" /\ d.panic.class = "none" /\ fullName # <<46>>
                  THEN [k \in DOMAIN fm \cup {fullName} |->
                           IF k = fullName THEN d.fields ELSE fm[k]]
                  ELSE fm]

\* the probe under the read lock: a hit returns the entry found under fullName
getStructFieldsNamed(fm, st, fullName) ==
    IF fullName \in DOMAIN fm
    THEN [fields |-> fm[fullName], err |-> "", panic |-> NoPanic, fieldMap |-> fm]
    ELSE getStructFieldsMiss(fm, fullName, deriveFields(st))

\* getStructFields run to completion by one caller: probe, derive on a miss, insert
\* unless the type is anonymous.  fm is the cache before, fieldMap the cache after.
getStructFields(fm, st) == getStructFieldsNamed(fm, st, fullNameOf(st))

-----------------------------------------------------------------------------
(* The encoder, encode.go.  An encoder state e is [out, panic, fieldMap,   *)
(* plat]: e.out is encoder.out, e.panic the panic in flight (every         *)
(* operator passes a panicking state through untouched, which is Go's      *)
(* unwinding), e.fieldMap the schema cache as the run has left it so far   *)
(* and e.plat the build.                                                   *)

itoaCacheSize == 32

RECURSIVE Itoa(_)
\* strconv.Itoa for i >= 0
Itoa(i) == IF i < 10 THEN <<48 + i>> ELSE Itoa(i \div 10) \o <<48 + (i % 10)>>

itoaCache == [i \in 0..(itoaCacheSize - 1) |-> Itoa(i)]

itoa(i) == IF i < itoaCacheSize THEN itoaCache[i] ELSE Itoa(i)

addBytes(e, v) == [e EXCEPT !.out = @ \o v]

\* reserveInt32 returns pos = len(e.out) before the append; the caller keeps it
reserveInt32(e) == addBytes(e, <<0, 0, 0, 0>>)

\* setInt32 with the four bytes stored most significant first
setInt32_BigEndian(e, pos, v) ==
    [e EXCEPT !.out = [i \in 1..Len(@) |->
        IF i > pos /\ i <= pos + 4 THEN ByteOf32(v, 3 - (i - pos - 1)) ELSE @[i]]]

setInt32(e, pos, v) ==
    [e EXCEPT !.out = [i \in 1..Len(@) |->
        IF i > pos /\ i <= pos + 4 THEN ByteOf32(v, i - pos - 1) ELSE @[i]]]

addInt32(e, v) == addBytes(e, LE32(v))

addInt64(e, v) ==
    addBytes(e, << ByteOf32(v.lo, 0), ByteOf32(v.lo, 1), ByteOf32(v.lo, 2), ByteOf32(v.lo, 3),
                   ByteOf32(v.hi, 0), ByteOf32(v.hi, 1), ByteOf32(v.hi, 2), ByteOf32(v.hi, 3) >>)

addCStr(e, v) == addBytes(addBytes(e, v), <<0>>)

addStr(e, v) == addCStr(addInt32(e, Len(v) + 1), v)

addBinary(e, subtype, v) ==
    IF subtype = 2
    THEN addBytes(addInt32(addBytes(addInt32(e, Len(v) + 4), <<subtype>>), Len(v)), v)
    ELSE addBytes(addBytes(addInt32(e, Len(v)), <<subtype>>), v)

addElemName(e, kind, name) == addBytes(addBytes(addBytes(e, <<kind>>), name), <<0>>)

Invalid == [k |-> "Invalid"]

\* v implements Getter
IsGetter(v) == v.k = "Struct" /\ v.t = "Getter"

\* v was read from an unexported structure field (reflect's read-only flag)
IsRO(v) == "ro" \in DOMAIN v

\* v.Field(i): the i-th field's value, read-only when that field is unexported
Field(v, i) ==
    IF v.st.fields[i + 1].pkgPath # <<>>
    THEN [x \in DOMAIN v.vals[i + 1] \cup {"ro"} |->
              IF x = "ro" THEN TRUE ELSE v.vals[i + 1][x]]
    ELSE v.vals[i + 1]

\* the []byte held by a slice or array of bytes
BytesOf(v) == [i \in 1..Len(v.elems) |-> v.elems[i].u.lo]

isZero(v) ==
    CASE v.k = "String" -> Len(v.s) = 0
      [] v.k \in {"Ptr", "Interface"} -> v.elem.k = "Invalid"
      [] v.k = "Slice" -> Len(v.elems) = 0
      [] v.k = "Map" -> Len(v.entries) = 0
      [] v.k \in SignedKinds -> v.i = I64(0, 0)
      [] v.k \in UnsignedKinds -> v.u = I64(0, 0)
      [] v.k = "Bool" -> ~v.b
      [] OTHER -> FALSE

\* the unsigned case with the narrow encoding decided by the declared width alone
addElemUint_ByWidth(e, name, v, short) ==
    IF v.u.hi < 0
    THEN raise(e, "string", "BSON has no uint64 type")
    ELSE IF LeqU64(v.u, MaxInt32_64) /\ (short \/ v.k \in {"Uint8", "Uint16", "Uint32"})
    THEN addInt32(addElemName(e, 16, name), Int32OfInt64(v.u))
    ELSE addInt64(addElemName(e, 18, name), v.u)

\* addElem's case for the unsigned kinds
addElemUint(e, name, v, short) ==
    IF v.u.hi < 0
    THEN raise(e, "string", "BSON has no uint64 type")
    ELSE IF LeqU64(v.u, MaxInt32_64) /\ (short \/ KindNum(v.k) <= KindNum("Uint32"))
    THEN addInt32(addElemName(e, 16, name), Int32OfInt64(v.u))
    ELSE addInt64(addElemName(e, 18, name), v.u)

\* addElem's case for the signed kinds
addElemInt(e, name, v, short) ==
    IF KindNum(v.k) <= KindNum("Int32")
    THEN addInt32(addElemName(e, 16, name), Int32OfInt64(v.i))
    ELSE IF v.t = "Timestamp"
    THEN addInt64(addElemName(e, 9, name), QuoS64(v.i, 1000000))
    ELSE IF v.t = "MongoTimestamp" THEN addInt64(addElemName(e, 17, name), v.i)
    ELSE IF v.t = "orderKey"
    THEN IF v.i = I64(MaxInt32, -1) THEN addElemName(e, 127, name)
         ELSE addElemName(e, 255, name)
    ELSE IF short /\ LeqS64(MinInt32_64, v.i) /\ LeqS64(v.i, MaxInt32_64)
    THEN addInt32(addElemName(e, 16, name), Int32OfInt64(v.i))
    ELSE addInt64(addElemName(e, 18, name), v.i)

RECURSIVE addDoc(_, _)
RECURSIVE addDocLoop(_, _)
RECURSIVE addMapFrom(_, _, _)
RECURSIVE addStructFrom(_, _, _, _)
RECURSIVE addStructField(_, _, _)
RECURSIVE addSliceFrom(_, _, _)
RECURSIVE addElem(_, _, _, _)

addMap(e, v) == addMapFrom(e, v, 1)

\* the range over v.MapKeys(); entries are in the order this run iterates them
addMapFrom(e, v, j) ==
    IF e.panic.class # "none" \/ j > Len(v.entries) THEN e
    ELSE addMapFrom(addElem(e, v.entries[j].key, v.entries[j].val, FALSE), v, j + 1)

\* the body of addStruct's loop for list index i: the field read is v.Field(i), and
\* reflect panics when the structure has no field i
addStructFrom(e, v, List, i) ==
    IF e.panic.class # "none" \/ i = Len(List) THEN e
    ELSE IF i >= Len(v.vals) THEN raise(e, "string", "reflect: Field index out of range")
    ELSE addStructFrom(addStructField(e, List[i + 1], Field(v, i)), v, List, i + 1)

\* one iteration of addStruct's loop, given the entry and the value read for it
addStructField(e, info, value) ==
    IF info.Conditional /\ isZero(value) THEN e
    ELSE addElem(e, info.Key, value, info.Short)

\* addStruct after getStructFields has returned r; the cache is as r left it
addStructFields(e, v, r) ==
    IF r.panic.class # "none" THEN [e EXCEPT !.fieldMap = r.fieldMap, !.panic = r.panic]
    ELSE IF r.err # "" THEN raise([e EXCEPT !.fieldMap = r.fieldMap], "oserror", r.err)
    ELSE addStructFrom([e EXCEPT !.fieldMap = r.fieldMap], v, r.fields.List, 0)

addStruct(e, v) == addStructFields(e, v, getStructFields(e.fieldMap, v.st))

\* the two loops of addSlice; j is 1-based here, the emitted index is j - 1
addSliceFrom(e, v, j) ==
    IF e.panic.class # "none" \/ j > Len(v.elems) THEN e
    ELSE IF v.k = "Slice" /\ v.t = "D"
    THEN addSliceFrom(addElem(e, v.elems[j].vals[1].s, v.elems[j].vals[2].elem, FALSE), v, j + 1)
    ELSE addSliceFrom(addElem(e, itoa(j - 1), v.elems[j], FALSE), v, j + 1)

addSlice(e, v) == addSliceFrom(e, v, 1)

\* the for loop at the head of addDoc: Getter replacement and pointer unwrapping.
\* v.Interface() on the zero Value panics with a *reflect.ValueError, an os.Error.
addDocLoop(e, v) ==
    IF v.k = "Invalid" THEN [e |-> raise(e, "oserror", "reflect.Value.Interface"), v |-> v]
    ELSE IF IsGetter(v)
    THEN IF v.pan # "none"
         THEN [e |-> raise(e, v.pan, "GetBSON"), v |-> v]
         ELSE addDocLoop(e, v.res)
    ELSE IF v.k = "Ptr" THEN addDocLoop(e, v.elem)
    ELSE [e |-> e, v |-> v]

\* the switch of addDoc on the kind of the unwrapped value
addDocSwitch(e, v) ==
    CASE v.k = "Map" -> addMap(e, v)
      [] v.k = "Struct" -> addStruct(e, v)
      [] v.k \in {"Array", "Slice"} -> addSlice(e, v)
      [] OTHER -> raise(e, "string", "Can't marshal as a BSON document")

\* the end of addDoc: the terminating zero byte, then the length written at start
addDocEnd(e, start) ==
    IF e.panic.class # "none" THEN e
    ELSE setInt32(addBytes(e, <<0>>), start, Len(e.out) + 1 - start)

\* addDoc after its loop, on the unwrapped value v: a Raw is spliced in as it is,
\* anything else is written between a reserved length and a terminator
addDocValue(e, v) ==
    IF e.panic.class # "none" THEN e
    ELSE IF v.k = "Struct" /\ v.t = "Raw"
    THEN IF v.kind # 3 /\ v.kind # 0
         THEN raise(e, "string", "Attempted to unmarshal Raw kind as a document")
         ELSE addBytes(e, v.data)
    ELSE addDocEnd(addDocSwitch(reserveInt32(e), v), Len(e.out))

addDocUnwrapped(u) == addDocValue(u.e, u.v)

addDoc(e, v) ==
    IF e.panic.class # "none" THEN e
    ELSE addDocUnwrapped(addDocLoop(e, v))

\* the length of a code-with-scope element, written at start once the scope is out
setLength(e, start) ==
    IF e.panic.class # "none" THEN e
    ELSE setInt32(e, start, Len(e.out) - start)

\* addElem's JS case with a scope, after the element's name: a reserved length, the
\* code, the scope as a document
addElemCodeWScope(e, v) ==
    setLength(addDoc(addStr(reserveInt32(e), v.code), v.scope), Len(e.out))

addElem(e, name, v, short) ==
    IF e.panic.class # "none" THEN e
    ELSE IF v.k = "Invalid" THEN addElemName(e, 10, name)
    ELSE IF IsRO(v) /\ e.plat.roCheck
    THEN raise(e, "string", "reflect.Value.Interface: unexported field")
    ELSE IF IsGetter(v)
    THEN IF v.pan # "none" THEN raise(e, v.pan, "GetBSON")
         ELSE addElem(e, name, v.res, short)
    ELSE
    CASE v.k \in {"Interface", "Ptr"} -> addElem(e, name, v.elem, short)
      [] v.k = "String" ->
            IF v.t = "ObjectId"
            THEN IF Len(v.s) # 12
                 THEN raise(e, "string", "ObjectIDs must be exactly 12 bytes long")
                 ELSE addBytes(addElemName(e, 7, name), v.s)
            ELSE IF v.t = "Symbol" THEN addStr(addElemName(e, 14, name), v.s)
            ELSE addStr(addElemName(e, 2, name), v.s)
      [] v.k \in {"Float32", "Float64"} -> addInt64(addElemName(e, 1, name), v.bits)
      [] v.k \in UnsignedKinds -> addElemUint(e, name, v, short)
      [] v.k \in SignedKinds -> addElemInt(e, name, v, short)
      [] v.k = "Bool" ->
            IF v.b THEN addBytes(addElemName(e, 8, name), <<1>>)
            ELSE addBytes(addElemName(e, 8, name), <<0>>)
      [] v.k = "Map" -> addDoc(addElemName(e, 3, name), v)
      [] v.k = "Slice" ->
            IF v.et = "Uint8"
            THEN IF v.t # ""
                 THEN raise(addElemName(e, 5, name), "runtime", "interface conversion")
                 ELSE addBinary(addElemName(e, 5, name), 0, BytesOf(v))
            ELSE IF v.et = "DocElem" THEN addDoc(addElemName(e, 3, name), v)
            ELSE addDoc(addElemName(e, 4, name), v)
      [] v.k = "Array" ->
            IF v.et = "Uint8"
            THEN IF ~v.addr
                 THEN raise(addElemName(e, 5, name), "string", "slice of unaddressable array")
                 ELSE IF v.t # ""
                 THEN raise(addElemName(e, 5, name), "runtime", "interface conversion")
                 ELSE addBinary(addElemName(e, 5, name), 0, BytesOf(v))
            ELSE addDoc(addElemName(e, 4, name), v)
      [] v.k = "Struct" ->
            CASE v.t = "Raw" ->
                    addBytes(addElemName(e, IF v.kind = 0 THEN 3 ELSE v.kind, name), v.data)
              [] v.t = "Binary" -> addBinary(addElemName(e, 5, name), v.kind, v.data)
              [] v.t = "RegEx" -> addCStr(addCStr(addElemName(e, 11, name), v.pattern), v.options)
              [] v.t = "JS" ->
                    IF v.scope.k = "Invalid"
                    THEN addStr(addElemName(e, 13, name), v.code)
                    ELSE addElemCodeWScope(addElemName(e, 15, name), v)
              [] v.t = "undefined" -> addElemName(e, 6, name)
              [] OTHER -> addDoc(addElemName(e, 3, name), v)
      [] OTHER -> raise(e, "string", "Can't marshal in a BSON document")

-----------------------------------------------------------------------------
(* Marshal and handleErr, gobson.go *)

\* handleErr without the os.Error branch: an error value is raised again
handleErr_StringsOnly(e) ==
    CASE e.panic.class = "none" ->
            [out |-> e.out, outNil |-> FALSE, err |-> "", raised |-> "none"]
      [] e.panic.class = "string" ->
            [out |-> <<>>, outNil |-> TRUE, err |-> e.panic.msg, raised |-> "none"]
      [] OTHER ->
            [out |-> <<>>, outNil |-> TRUE, err |-> "", raised |-> e.panic.class]

\* the deferred handleErr applied to what e.addDoc left behind: a string or os.Error
\* panic becomes the error return, with the named result out still nil; any other
\* panic is raised again
handleErr(e) ==
    CASE e.panic.class = "none" ->
            [out |-> e.out, outNil |-> FALSE, err |-> "", raised |-> "none"]
      [] e.panic.class = "runtime" ->
            [out |-> <<>>, outNil |-> TRUE, err |-> "", raised |-> "runtime"]
      [] e.panic.class = "string" ->
            [out |-> <<>>, outNil |-> TRUE, err |-> e.panic.msg, raised |-> "none"]
      [] e.panic.class = "oserror" ->
            [out |-> <<>>, outNil |-> TRUE, err |-> e.panic.msg, raised |-> "none"]
      [] OTHER ->
            [out |-> <<>>, outNil |-> TRUE, err |-> "", raised |-> e.panic.class]

\* the encoder's run for Marshal(v): a fresh encoder, then addDoc
encode(plat, fm, v) ==
    addDoc([out |-> <<>>, panic |-> NoPanic, fieldMap |-> fm, plat |-> plat], v)

Marshal(plat, fm, v) == handleErr(encode(plat, fm, v))

-----------------------------------------------------------------------------
(* Host values handed to Marshal.  Each constructor builds the record the  *)
(* encoder reads through reflect.                                          *)

Str(s) == [k |-> "String", t |-> "string", s |-> s]
Symbol(s) == [k |-> "String", t |-> "Symbol", s |-> s]
ObjectId(s) == [k |-> "String", t |-> "ObjectId", s |-> s]
Float64(bits) == [k |-> "Float64", bits |-> bits]
IntV(kind, x) == [k |-> kind, t |-> "", i |-> x]
Timestamp(x) == [k |-> "Int64", t |-> "Timestamp", i |-> x]
MongoTimestamp(x) == [k |-> "Int64", t |-> "MongoTimestamp", i |-> x]
MaxKey == [k |-> "Int64", t |-> "orderKey", i |-> I64(MaxInt32, -1)]
MinKey == [k |-> "Int64", t |-> "orderKey", i |-> I64(MinInt32, 0)]
UintV(kind, x) == [k |-> kind, u |-> x]
BoolV(b) == [k |-> "Bool", b |-> b]
Iface(x) == [k |-> "Interface", elem |-> x]
Ptr(x) == [k |-> "Ptr", elem |-> x]
\* a map, its entries in the order this run's MapKeys() lists them
MapV(entries) == [k |-> "Map", entries |-> entries]
Entry(key, val) == [key |-> key, val |-> val]
SliceV(t, et, elems) == [k |-> "Slice", t |-> t, et |-> et, elems |-> elems]
ArrayV(et, elems, addr) == [k |-> "Array", t |-> "", et |-> et, elems |-> elems, addr |-> addr]
Raw(kind, data) == [k |-> "Struct", t |-> "Raw", kind |-> kind, data |-> data]
\* type Binary struct { Kind byte; Data []byte }
Binary(kind, data) ==
    [k |-> "Struct", t |-> "Binary", kind |-> kind, data |-> data,
     st |-> [pkg |-> <<98, 115, 111, 110>>, name |-> <<66, 105, 110, 97, 114, 121>>, scope |-> 0,
             fields |-> << [name |-> <<75, 105, 110, 100>>, pkgPath |-> <<>>, tag |-> <<>>],
                           [name |-> <<68, 97, 116, 97>>, pkgPath |-> <<>>, tag |-> <<>>] >>],
     vals |-> << UintV("Uint8", I64(0, kind)),
                 SliceV("", "Uint8", [j \in 1..Len(data) |-> UintV("Uint8", I64(0, data[j]))]) >>]
\* type RegEx struct { Pattern string; Options string }
RegEx(pattern, options) ==
    [k |-> "Struct", t |-> "RegEx", pattern |-> pattern, options |-> options,
     st |-> [pkg |-> <<98, 115, 111, 110>>, name |-> <<82, 101, 103, 69, 120>>, scope |-> 0,
             fields |-> << [name |-> <<80, 97, 116, 116, 101, 114, 110>>, pkgPath |-> <<>>, tag |-> <<>>],
                           [name |-> <<79, 112, 116, 105, 111, 110, 115>>, pkgPath |-> <<>>, tag |-> <<>>] >>],
     vals |-> << Str(pattern), Str(options) >>]
\* type JS struct { Code string; Scope interface{} }; scope is Invalid for a nil Scope
JS(code, scope) ==
    [k |-> "Struct", t |-> "JS", code |-> code, scope |-> scope,
     st |-> [pkg |-> <<98, 115, 111, 110>>, name |-> <<74, 83>>, scope |-> 0,
             fields |-> << [name |-> <<67, 111, 100, 101>>, pkgPath |-> <<>>, tag |-> <<>>],
                           [name |-> <<83, 99, 111, 112, 101>>, pkgPath |-> <<>>, tag |-> <<>>] >>],
     vals |-> << Str(code), Iface(scope) >>]
\* type undefined struct{}
Undefined ==
    [k |-> "Struct", t |-> "undefined",
     st |-> [pkg |-> <<98, 115, 111, 110>>, name |-> <<117, 110, 100, 101, 102, 105, 110, 101, 100>>,
             scope |-> 0, fields |-> <<>>],
     vals |-> <<>>]
\* a value whose type implements Getter: GetBSON returns res, or panics with a value
\* of class pan
GetterV(pan, res) == [k |-> "Struct", t |-> "Getter", pan |-> pan, res |-> res]
Chan == [k |-> "Chan"]
StructV(st, vals) == [k |-> "Struct", t |-> "struct", st |-> st, vals |-> vals]

\* structure types
StructType(pkg, name, scope, fields) == [pkg |-> pkg, name |-> name, scope |-> scope, fields |-> fields]
Exported(name, tag) == [name |-> name, pkgPath |-> <<>>, tag |-> tag]
Unexported(name, pkg) == [name |-> name, pkgPath |-> pkg, tag |-> <<>>]

pkgMain == <<109, 97, 105, 110>>
pkgBson == <<98, 115, 111, 110>>

\* type DocElem struct { Name string; Value interface{} }
typeDocElem ==
    StructType(pkgBson, <<68, 111, 99, 69, 108, 101, 109>>, 0,
               << Exported(<<78, 97, 109, 101>>, <<>>), Exported(<<86, 97, 108, 117, 101>>, <<>>) >>)

DocElem(name, value) == StructV(typeDocElem, << Str(name), Iface(value) >>)

\* type D []DocElem
D(elems) == SliceV("D", "DocElem", elems)
\* map[string]interface{} with one key
M1(key, x) == MapV(<< Entry(key, Iface(x)) >>)

\* type Person struct { Name string "name"; Age int "age/c" }
typePerson ==
    StructType(pkgMain, <<80, 101, 114, 115, 111, 110>>, 0,
               << Exported(<<78, 97, 109, 101>>, <<110, 97, 109, 101>>),
                  Exported(<<65, 103, 101>>, <<97, 103, 101, 47, 99>>) >>)

\* type Mixed struct { secret int; B int "b/c"; C string }
typeMixed ==
    StructType(pkgMain, <<77, 105, 120, 101, 100>>, 0,
               << Unexported(<<115, 101, 99, 114, 101, 116>>, pkgMain),
                  Exported(<<66>>, <<98, 47, 99>>),
                  Exported(<<67>>, <<>>) >>)

\* type Tail struct { A int "a/c"; hidden int }, an anonymous type's fields when anon
typeTail(anon) ==
    StructType(IF anon THEN <<>> ELSE pkgMain, IF anon THEN <<>> ELSE <<84, 97, 105, 108>>, 0,
               << Exported(<<65>>, <<97, 47, 99>>), Unexported(<<104>>, pkgMain) >>)

\* type Dup struct { A int "x"; B int "x" }
typeDup ==
    StructType(pkgMain, <<68, 117, 112>>, 0,
               << Exported(<<65>>, <<120>>), Exported(<<66>>, <<120>>) >>)

\* type BadFlag struct { A int "a/cz" }
typeBadFlag ==
    StructType(pkgMain, <<66, 97, 100>>, 0, << Exported(<<65>>, <<97, 47, 99, 122>>) >>)

\* two types named T declared in two function scopes of package main:
\*   scope 1: type T struct { A int "a" }      scope 2: type T struct { S string "s/c"; B bool }
typeT(scope) ==
    StructType(pkgMain, <<84>>, scope,
               IF scope = 1 THEN << Exported(<<65>>, <<97>>) >>
               ELSE << Exported(<<83>>, <<115, 47, 99>>), Exported(<<66>>, <<>>) >>)

\* struct { N <kind> "n<flags>" }, an unnamed structure type with one field
typeOne(flags) == StructType(<<>>, <<>>, 0, << Exported(<<78>>, <<110>> \o flags) >>)

FlagSuffixes == { <<>>, <<47, 115>>, <<47, 99>> }

One(flags, x) == StructV(typeOne(flags), <<x>>)

-----------------------------------------------------------------------------
(* The builds.  intBits is the width of int and uint, ptrBits of uintptr   *)
(* (the language leaves both to the implementation); roCheck says whether  *)
(* reflect's Value.Interface refuses a value read from an unexported       *)
(* field.                                                                  *)

Platforms ==
    { [intBits |-> w[1], ptrBits |-> w[2], roCheck |-> r] :
        w \in { <<32, 32>>, <<32, 64>>, <<64, 64>> }, r \in BOOLEAN }

\* the declared width in bits of an integer kind on a build
Width(kind, plat) ==
    CASE kind \in {"Int8", "Uint8"} -> 8
      [] kind \in {"Int16", "Uint16"} -> 16
      [] kind \in {"Int32", "Uint32"} -> 32
      [] kind \in {"Int64", "Uint64"} -> 64
      [] kind \in {"Int", "Uint"} -> plat.intBits
      [] kind = "Uintptr" -> plat.ptrBits

\* sample values of a signed type of the given width
SignedOfWidth(w) ==
    CASE w = 8 -> { I64(0, 0), I64(0, 127), I64(-1, -128) }
      [] w = 16 -> { I64(0, 32767), I64(-1, -1) }
      [] w = 32 -> { I64(0, 0), I64(0, 42), I64(-1, -1), MaxInt32_64, MinInt32_64 }
      [] w = 64 -> { I64(0, 0), I64(0, 42), I64(-1, -1), MaxInt32_64, MinInt32_64,
                     I64(0, MinInt32), I64(-1, MaxInt32), I64(2, 0),
                     I64(MaxInt32, -1), I64(MinInt32, 0) }

\* sample values of an unsigned type of the given width
UnsignedOfWidth(w) ==
    CASE w = 8 -> { I64(0, 0), I64(0, 255) }
      [] w = 16 -> { I64(0, 65535) }
      [] w = 32 -> { I64(0, 0), I64(0, 42), MaxInt32_64, I64(0, MinInt32), I64(0, -1) }
      [] w = 64 -> { I64(0, 0), I64(0, 42), MaxInt32_64, I64(0, MinInt32), I64(0, -1),
                     I64(1, 0), I64(MaxInt32, -1), I64(MinInt32, 0), I64(-1, -1) }

SignedValues(plat) ==
    UNION { { IntV(k, x) : x \in SignedOfWidth(Width(k, plat)) } : k \in SignedKinds }

UnsignedValues(plat) ==
    UNION { { UintV(k, x) : x \in UnsignedOfWidth(Width(k, plat)) } : k \in UnsignedKinds }

s_hello == <<104, 101, 108, 108, 111>>
s_world == <<119, 111, 114, 108, 100>>
s_awesome == <<97, 119, 101, 115, 111, 109, 101>>
s_BSON == <<66, 83, 79, 78>>
s_Ada == <<65, 100, 97>>
s_a == <<97>>
s_b == <<98>>
s_k == <<107>>
s_x == <<120>>

Byte8(b) == UintV("Uint8", I64(0, b))

\* the document {"a": 1} as bytes already encoded
rawDocA == <<12, 0, 0, 0, 16, 97, 0, 1, 0, 0, 0, 0>>

PersonV(name, age) == StructV(typePerson, << Str(name), IntV("Int", I64(0, age)) >>)
MixedV(secret, b, c) ==
    StructV(typeMixed, << IntV("Int", I64(0, secret)), IntV("Int", I64(0, b)), Str(c) >>)
TailV(anon, a) == StructV(typeTail(anon), << IntV("Int", I64(0, a)), IntV("Int", I64(0, 9)) >>)
T1V(a) == StructV(typeT(1), << IntV("Int", I64(0, a)) >>)
T2V(s, b) == StructV(typeT(2), << Str(s), BoolV(b) >>)

StructValues ==
    { PersonV(s_Ada, 0), PersonV(s_Ada, 36), PersonV(<<>>, 0) }
    \cup { MixedV(s, b, c) : s \in {0, 5}, b \in {0, 7}, c \in { <<>>, s_x } }
    \cup { TailV(TRUE, a) : a \in {0, 3} }
    \cup { StructV(typeDup, << IntV("Int", I64(0, 1)), IntV("Int", I64(0, 2)) >>),
           StructV(typeBadFlag, << IntV("Int", I64(0, 1)) >>) }
    \cup { T1V(a) : a \in {0, 4} }
    \cup { T2V(s, b) : s \in { <<>>, s_a }, b \in BOOLEAN }

\* values of the other kinds, as they occur as an element's value
ElemValues ==
    { Invalid, Str(s_world), Str(<<>>), Symbol(s_a),
      ObjectId(<<1, 2, 3, 4, 5, 6, 7, 8, 9, 10, 11, 12>>), ObjectId(<<1, 2, 3>>),
      Float64(I64(1075065651, 858993459)), Float64(I64(0, 0)),
      IntV("Int", I64(0, 1986)), IntV("Int64", I64(2, 0)), IntV("Int8", I64(-1, -128)),
      UintV("Uint64", I64(MinInt32, 0)), UintV("Uint8", I64(0, 255)),
      UintV("Uint64", I64(1, 0)),
      Timestamp(I64(0, 1500000)), Timestamp(I64(-1, -1500000)), Timestamp(I64(2, 0)),
      MongoTimestamp(I64(1, 2)), MaxKey, MinKey, BoolV(TRUE), BoolV(FALSE),
      MapV(<<>>), M1(s_a, Str(s_b)),
      MapV(<< Entry(s_a, IntV("Int", I64(0, 1))), Entry(s_b, IntV("Int", I64(0, 2))) >>),
      SliceV("", "Interface",
             << Iface(Str(s_awesome)), Iface(Float64(I64(1075065651, 858993459))),
                Iface(IntV("Int", I64(0, 1986))) >>),
      SliceV("", "Int", << IntV("Int", I64(0, 1)), IntV("Int", I64(0, 2)) >>),
      SliceV("", "Int", <<>>),
      SliceV("", "Uint8", << Byte8(1), Byte8(200) >>), SliceV("", "Uint8", <<>>),
      SliceV("Blob", "Uint8", << Byte8(1) >>),
      ArrayV("Uint8", << Byte8(7) >>, TRUE), ArrayV("Uint8", << Byte8(7) >>, FALSE),
      ArrayV("Int", << IntV("Int", I64(0, 3)) >>, FALSE),
      D(<<>>), D(<< DocElem(s_a, IntV("Int", I64(0, 1))), DocElem(s_b, BoolV(TRUE)) >>),
      SliceV("", "DocElem", << DocElem(s_a, IntV("Int", I64(0, 1))) >>),
      Raw(0, rawDocA), Raw(3, rawDocA), Raw(16, <<1, 0, 0, 0>>), Raw(3, <<>>),
      Binary(0, <<1, 2>>), Binary(2, <<1, 2>>), Binary(128, <<>>),
      RegEx(s_a, <<105>>), JS(s_x, Invalid), JS(s_x, M1(s_a, BoolV(TRUE))),
      JS(s_x, Raw(3, <<9, 9>>)), JS(s_x, Str(s_a)), Undefined,
      Ptr(Invalid), Ptr(PersonV(s_Ada, 36)), Ptr(Ptr(IntV("Int", I64(0, 5)))),
      GetterV("none", Str(s_a)), GetterV("none", Invalid),
      GetterV("none", GetterV("none", M1(s_a, Invalid))),
      GetterV("string", Invalid), GetterV("oserror", Invalid),
      GetterV("runtime", Invalid), GetterV("other", Invalid),
      Chan, PersonV(s_Ada, 0), T1V(4), T2V(s_a, FALSE), MixedV(5, 7, s_x) }

\* values tried as the one field of struct { N T "n<flags>" } beside the integers
FieldValues ==
    { Str(<<>>), Str(s_a), Ptr(Invalid), Ptr(IntV("Int", I64(0, 0))),
      Iface(Invalid), Iface(IntV("Int", I64(0, 0))), MapV(<<>>), M1(s_a, Invalid),
      SliceV("", "Int", <<>>), SliceV("", "Int", << IntV("Int", I64(0, 0)) >>),
      BoolV(FALSE), BoolV(TRUE), Float64(I64(0, 0)),
      ArrayV("Int", <<>>, FALSE), T1V(0), UintV("Uint64", I64(MinInt32, 0)) }

\* the arguments Marshal is called with on a build
Inputs(plat) ==
    { M1(s_k, x) : x \in ElemValues }
    \cup { D(<< DocElem(s_k, x) >>) : x \in ElemValues }
    \cup { x \in ElemValues : ~(x.k = "Struct" /\ x.t \in {"Binary", "JS", "undefined", "RegEx"}) }
    \cup StructValues
    \cup { Ptr(x) : x \in StructValues }
    \cup { One(f, x) : f \in FlagSuffixes,
                       x \in SignedValues(plat) \cup UnsignedValues(plat) \cup FieldValues }
    \cup { M1(s_hello, Str(s_world)), M1(s_x, BoolV(TRUE)),
           MapV(<< Entry(s_b, Iface(Invalid)), Entry(s_a, Iface(BoolV(FALSE))) >>),
           MapV(<< Entry(s_a, Iface(BoolV(FALSE))), Entry(s_b, Iface(Invalid)) >>),
           M1(s_BSON, SliceV("", "Interface",
               << Iface(Str(s_awesome)), Iface(Float64(I64(1075065651, 858993459))),
                  Iface(IntV("Int", I64(0, 1986))) >>)),
           Raw(0, <<>>), Raw(3, <<1, 2, 3>>), Raw(0, <<5, 0, 0, 0, 0>>),
           SliceV("", "String", << Str(s_a), Str(s_b) >>),
           GetterV("none", PersonV(s_Ada, 0)), GetterV("none", Ptr(M1(s_a, Invalid))),
           Ptr(Ptr(M1(s_a, Invalid))), Ptr(Str(s_a)), Ptr(D(<<>>)) }

-----------------------------------------------------------------------------
(* ObjectIds, gobson.go:121-240.  An id is the sequence of its 12 bytes.   *)
(* A uint32 is held as the signed reading of its 32 bits, like an int32,   *)
(* so that uint32(x) of an int32 x is x itself.                            *)

\* uint32(x) of an int64 x: the low word
Uint32OfInt64(x) == x.lo

\* PutUint32 storing the least significant byte first
PutUint32_LittleEndian(b, v) == LE32(v) \o SubSeq(b, 5, Len(b))

\* binary.BigEndian.PutUint32(b, v): the four bytes of v over b[0:4], most significant first
PutUint32(b, v) ==
    << ByteOf32(v, 3), ByteOf32(v, 2), ByteOf32(v, 1), ByteOf32(v, 0) >> \o SubSeq(b, 5, Len(b))

\* binary.BigEndian.Uint32(b)
Uint32(b) == Word32(<< b[4], b[3], b[2], b[1] >>)

\* binary.BigEndian.Uint16(b)
Uint16(b) == b[1] * 256 + b[2]

\* an addition that stops at 2^32 - 1 instead of wrapping to 0
AddUint32_Saturating(v, delta) ==
    IF v = -1 THEN v
    ELSE IF v > MaxInt32 - delta THEN MinInt32 + (v - (MaxInt32 - delta)) - 1
    ELSE v + delta

\* atomic.AddUint32(&v, delta) for a small delta: the new value, wrapping at 2^32
AddUint32(v, delta) ==
    IF v > MaxInt32 - delta THEN MinInt32 + (v - (MaxInt32 - delta)) - 1 ELSE v + delta

\* make([]byte, 12) and var b [12]byte
make12 == << 0, 0, 0, 0, 0, 0, 0, 0, 0, 0, 0, 0 >>

\* b[k] = x, k counted from 0
SetByte(b, k, x) == SubSeq(b, 1, k) \o <<x>> \o SubSeq(b, k + 2, Len(b))

\* NewObjectIdSeconds(sec), gobson.go:188
NewObjectIdSeconds(sec) == PutUint32(make12, sec)

\* id.byteSlice(start, end), for an id of 12 bytes (any other length panics)
byteSlice(id, start, end) == SubSeq(id, start + 1, end)

\* id.Timestamp(): int32 of the big-endian uint32 in the first four bytes
IdTimestamp(id) == Uint32(byteSlice(id, 0, 4))

\* id.Machine()
IdMachine(id) == byteSlice(id, 4, 7)

\* id.Pid()
IdPid(id) == Uint16(byteSlice(id, 7, 9))

\* id.Counter()
IdCounter(id) ==
    LET b == byteSlice(id, 9, 12)
    IN  b[1] * 65536 + b[2] * 256 + b[3]

NumProcs == 2
Procs == 1 .. NumProcs
MaxCalls == 3

\* machineId as the racing goroutines can find it: the nil slice, a header of which
\* initMachineId has written the pointer and not yet the length, or the slice of 3 bytes
NilSlice == [state |-> "nil", bytes |-> <<>>]

NoId == [op |-> "none", sec |-> 0, id |-> <<>>]
IdIdle == [pc |-> "idle", b |-> <<>>, sum |-> <<>>, i |-> 0, ord |-> 0, res |-> NoId]

\* the values time.Seconds() gives (int64): a date in 2011, one past 2^32 seconds
ClockValues == { I64(0, 1300000000), I64(1, -5) }

\* the arguments of NewObjectIdSeconds
SecondsValues == { 0, 1, -1, 1300000000, MaxInt32, MinInt32 }

\* the counter after no call, and after 2^24 - 2, 2^31 - 1 and 2^32 - 2 calls
CounterValues == { 0, 16777214, MaxInt32, -2 }

IdQuiet ==
    /\ objectIdCounter = 0
    /\ machineId = NilSlice
    /\ idEnv = [pid |-> 0, sum |-> <<>>, hostnameErr |-> FALSE, counter0 |-> 0]
    /\ idProc = [p \in Procs |-> IdIdle]
    /\ idHist = <<>>
    /\ idIncs = 0
    /\ idCalls = 0

IdInit ==
    /\ objectIdCounter \in CounterValues
    /\ machineId = NilSlice
    /\ \E pid \in {4660, 70000}, err \in BOOLEAN :
          idEnv = [pid |-> pid, sum |-> <<171, 205, 239>>, hostnameErr |-> err,
                   counter0 |-> objectIdCounter]
    /\ idProc = [p \in Procs |-> IdIdle]
    /\ idHist = <<>>
    /\ idIncs = 0
    /\ idCalls = 0

\* gobson.go:161-163: b := make([]byte, 12); PutUint32(b, uint32(time.Seconds()))
NewObjectIdBegin(p, t) ==
    /\ idProc[p].pc = "idle"
    /\ idCalls < MaxCalls
    /\ idProc' = [idProc EXCEPT ![p] =
                    [IdIdle EXCEPT !.pc = "check", !.b = PutUint32(make12, Uint32OfInt64(t))]]
    /\ idCalls' = idCalls + 1
    /\ UNCHANGED <<objectIdCounter, machineId, idEnv, idHist, idIncs>>

\* gobson.go:165: if machineId == nil, read with no lock held.  Against a header half
\* written by another goroutine the test may go either way.
CheckMachineId(p) ==
    /\ idProc[p].pc = "check"
    /\ \E isNil \in (CASE machineId.state = "nil" -> {TRUE}
                      [] machineId.state = "set" -> {FALSE}
                      [] OTHER -> BOOLEAN) :
          idProc' = [idProc EXCEPT ![p].pc = IF isNil THEN "hostname" ELSE "copy"]
    /\ UNCHANGED <<objectIdCounter, machineId, idEnv, idHist, idIncs, idCalls>>

\* initMachineId, gobson.go:146-153: os.Hostname() and the first 3 bytes of its md5
Hostname(p) ==
    /\ idProc[p].pc = "hostname"
    /\ idProc' = [idProc EXCEPT ![p] =
                    IF idEnv.hostnameErr
                    THEN [@ EXCEPT !.pc = "panicked",
                                   !.res = [op |-> "panic", sec |-> 0, id |-> <<>>]]
                    ELSE [@ EXCEPT !.pc = "store", !.sum = idEnv.sum]]
    /\ UNCHANGED <<objectIdCounter, machineId, idEnv, idHist, idIncs, idCalls>>

\* initMachineId, gobson.go:154: machineId = sum[:], the first word of the header
StoreMachineId(p) ==
    /\ idProc[p].pc = "store"
    /\ machineId' = IF machineId.state = "set"
                    THEN [state |-> "set", bytes |-> idProc[p].sum]
                    ELSE [state |-> "torn", bytes |-> idProc[p].sum]
    /\ idProc' = [idProc EXCEPT ![p].pc = "stored"]
    /\ UNCHANGED <<objectIdCounter, idEnv, idHist, idIncs, idCalls>>

\* initMachineId, gobson.go:154: the rest of the header
StoreMachineIdDone(p) ==
    /\ idProc[p].pc = "stored"
    /\ machineId' = [state |-> "set", bytes |-> idProc[p].sum]
    /\ idProc' = [idProc EXCEPT ![p].pc = "copy"]
    /\ UNCHANGED <<objectIdCounter, idEnv, idHist, idIncs, idCalls>>

\* gobson.go:168-174: b[4..6] = machineId[0..2], b[7..8] = the pid.  Indexing a header
\* whose length is not yet written is an index out of range.
CopyMachineId(p) ==
    /\ idProc[p].pc = "copy"
    /\ \E ok \in (CASE machineId.state = "set" -> {TRUE}
                   [] machineId.state = "nil" -> {FALSE}
                   [] OTHER -> BOOLEAN) :
          idProc' = [idProc EXCEPT ![p] =
                        IF ok
                        THEN [@ EXCEPT !.pc = "inc",
                                 !.b = SetByte(SetByte(SetByte(SetByte(SetByte(@,
                                          4, machineId.bytes[1]),
                                          5, machineId.bytes[2]),
                                          6, machineId.bytes[3]),
                                          7, ByteOf32(idEnv.pid, 1)),
                                          8, ByteOf32(idEnv.pid, 0))]
                        ELSE [@ EXCEPT !.pc = "panicked",
                                 !.res = [op |-> "panic", sec |-> 0, id |-> <<>>]]]
    /\ UNCHANGED <<objectIdCounter, machineId, idEnv, idHist, idIncs, idCalls>>

\* gobson.go:176: i := atomic.AddUint32(&objectIdCounter, 1)
Increment(p) ==
    /\ idProc[p].pc = "inc"
    /\ objectIdCounter' = AddUint32(objectIdCounter, 1)
    /\ idIncs' = idIncs + 1
    /\ idProc' = [idProc EXCEPT ![p].pc = "fin", ![p].i = objectIdCounter',
                                ![p].ord = idIncs']
    /\ UNCHANGED <<machineId, idEnv, idHist, idCalls>>

\* gobson.go:177-180: b[9..11] = the low three bytes of i; return ObjectId(b)
Finish(p) ==
    /\ idProc[p].pc = "fin"
    /\ LET i == idProc[p].i
           b == SetByte(SetByte(SetByte(idProc[p].b, 9, ByteOf32(i, 2)),
                                10, ByteOf32(i, 1)), 11, ByteOf32(i, 0))
       IN  /\ idProc' = [idProc EXCEPT ![p].pc = "done", ![p].b = b,
                                      ![p].res = [op |-> "new", sec |-> 0, id |-> b]]
           /\ idHist' = Append(idHist, [p |-> p, ord |-> idProc[p].ord, id |-> b])
    /\ UNCHANGED <<objectIdCounter, machineId, idEnv, idIncs, idCalls>>

\* NewObjectIdSeconds(s), gobson.go:188-192, called by p
NewObjectIdSecondsCall(p, s) ==
    /\ idProc[p].pc = "idle"
    /\ idCalls < MaxCalls
    /\ idProc' = [idProc EXCEPT ![p] =
                    [IdIdle EXCEPT !.pc = "done",
                                   !.res = [op |-> "seconds", sec |-> s,
                                            id |-> NewObjectIdSeconds(s)]]]
    /\ idCalls' = idCalls + 1
    /\ UNCHANGED <<objectIdCounter, machineId, idEnv, idHist, idIncs>>

\* the caller takes the id (or the panic) and may call again
IdRelease(p) ==
    /\ idProc[p].pc \in {"done", "panicked"}
    /\ idProc' = [idProc EXCEPT ![p] = IdIdle]
    /\ UNCHANGED <<objectIdCounter, machineId, idEnv, idHist, idIncs, idCalls>>

-----------------------------------------------------------------------------
(* The schema cache under concurrent callers, gobson.go:423-487 *)

MaxLookups == 3

NoFields == [Map |-> <<>>, List |-> <<>>]
CIdle == [pc |-> "idle", st |-> [k |-> "None"], fields |-> NoFields, found |-> FALSE,
          err |-> "", panic |-> NoPanic]

Unlocked == [readers |-> {}, writer |-> 0]

CacheQuiet ==
    /\ fieldMapMutex = Unlocked
    /\ cProc = [p \in Procs |-> CIdle]
    /\ cCalls = 0

\* getStructFields(st) is entered, gobson.go:426-430
GetStructFieldsCall(p, st) ==
    /\ cProc[p].pc = "idle"
    /\ cCalls < MaxLookups
    /\ cProc' = [cProc EXCEPT ![p] = [CIdle EXCEPT !.pc = "RLock", !.st = st]]
    /\ cCalls' = cCalls + 1
    /\ UNCHANGED <<fieldMap, fieldMapMutex>>

\* fieldMapMutex.RLock(), gobson.go:431
RLock(p) ==
    /\ cProc[p].pc = "RLock"
    /\ fieldMapMutex.writer = 0
    /\ fieldMapMutex' = [fieldMapMutex EXCEPT !.readers = @ \cup {p}]
    /\ cProc' = [cProc EXCEPT ![p].pc = "probe"]
    /\ UNCHANGED <<fieldMap, cCalls>>

\* fields, found := fieldMap[fullName], gobson.go:432
Probe(p) ==
    /\ cProc[p].pc = "probe"
    /\ LET fullName == fullNameOf(cProc[p].st)
           found == fullName \in DOMAIN fieldMap
       IN  cProc' = [cProc EXCEPT ![p].pc = "RUnlock", ![p].found = found,
                                  ![p].fields = IF found THEN fieldMap[fullName] ELSE NoFields]
    /\ UNCHANGED <<fieldMap, fieldMapMutex, cCalls>>

\* fieldMapMutex.RUnlock(); if found { return fields, nil }, gobson.go:433-436
RUnlock(p) ==
    /\ cProc[p].pc = "RUnlock"
    /\ fieldMapMutex' = [fieldMapMutex EXCEPT !.readers = @ \ {p}]
    /\ cProc' = [cProc EXCEPT ![p].pc = IF cProc[p].found THEN "done" ELSE "derive"]
    /\ UNCHANGED <<fieldMap, cCalls>>

\* the derivation, gobson.go:438-476, with no lock held: a panic for an unsupported
\* flag, an error for a duplicated key, else the schema; an anonymous type is returned
\* without being cached (gobson.go:478)
Derive(p) ==
    /\ cProc[p].pc = "derive"
    /\ LET d == deriveFields(cProc[p].st)
       IN  cProc' = [cProc EXCEPT ![p] =
                IF d.panic.class # "none" THEN [@ EXCEPT !.pc = "panicked", !.panic = d.panic]
                ELSE IF d.err # "" THEN [@ EXCEPT !.pc = "done", !.err = d.err]
                ELSE [@ EXCEPT !.fields = d.fields,
                               !.pc = IF fullNameOf(cProc[p].st) # <<46>>
                                      THEN "Lock" ELSE "done"]]
    /\ UNCHANGED <<fieldMap, fieldMapMutex, cCalls>>

\* a Lock that waits for the writer only and not for the readers
Lock_IgnoringReaders(p) ==
    /\ cProc[p].pc = "Lock"
    /\ fieldMapMutex.writer = 0
    /\ fieldMapMutex' = [fieldMapMutex EXCEPT !.writer = p]
    /\ cProc' = [cProc EXCEPT ![p].pc = "insert"]
    /\ UNCHANGED <<fieldMap, cCalls>>

\* fieldMapMutex.Lock(), gobson.go:479
Lock(p) ==
    /\ cProc[p].pc = "Lock"
    /\ fieldMapMutex = Unlocked
    /\ fieldMapMutex' = [fieldMapMutex EXCEPT !.writer = p]
    /\ cProc' = [cProc EXCEPT ![p].pc = "insert"]
    /\ UNCHANGED <<fieldMap, cCalls>>

\* fieldMap[fullName] = fields, gobson.go:480
Insert(p) ==
    /\ cProc[p].pc = "insert"
    /\ LET fullName == fullNameOf(cProc[p].st)
       IN  fieldMap' = [k \in DOMAIN fieldMap \cup {fullName} |->
                           IF k = fullName THEN cProc[p].fields ELSE fieldMap[k]]
    /\ cProc' = [cProc EXCEPT ![p].pc = "Unlock"]
    /\ UNCHANGED <<fieldMapMutex, cCalls>>

\* fieldMapMutex.Unlock(); return fields, nil, gobson.go:481-484
Unlock(p) ==
    /\ cProc[p].pc = "Unlock"
    /\ fieldMapMutex' = [fieldMapMutex EXCEPT !.writer = 0]
    /\ cProc' = [cProc EXCEPT ![p].pc = "done"]
    /\ UNCHANGED <<fieldMap, cCalls>>

\* the caller takes the result (or the panic) and may call again
CRelease(p) ==
    /\ cProc[p].pc \in {"done", "panicked"}
    /\ cProc' = [cProc EXCEPT ![p] = CIdle]
    /\ UNCHANGED <<fieldMap, fieldMapMutex, cCalls>>

-----------------------------------------------------------------------------
(* Sequential callers of Marshal *)

None == [k |-> "None"]
NoRet == [out |-> <<>>, outNil |-> TRUE, err |-> "", raised |-> "idle"]

SeqQuiet ==
    /\ platform = [intBits |-> 64, ptrBits |-> 64, roCheck |-> TRUE]
    /\ in = None
    /\ ret = NoRet
    /\ pc = "idle"

Init ==
    /\ platform \in Platforms
    /\ fieldMap = <<>>
    /\ in = None
    /\ ret = NoRet
    /\ pc = "idle"
    /\ IdQuiet
    /\ CacheQuiet

\* what Marshal hands back once the encoder has run to e: the deferred handleErr
\* decides the results, and the structure schemas the run derived stay cached
MarshalReturn(e) ==
    /\ ret' = handleErr(e)
    /\ fieldMap' = e.fieldMap

\* Marshal(v), gobson.go:343: the whole call, with what it leaves in the schema cache
MarshalCall(v) ==
    /\ pc = "idle"
    /\ MarshalReturn(encode(platform, fieldMap, v))
    /\ in' = v
    /\ pc' = "done"
    /\ UNCHANGED <<platform, idVars, cacheVars>>

\* the caller is done with the result and may call again
Return ==
    /\ pc = "done"
    /\ in' = None
    /\ ret' = NoRet
    /\ pc' = "idle"
    /\ UNCHANGED <<platform, fieldMap, idVars, cacheVars>>

Next ==
    \/ pc = "idle" /\ \E v \in Inputs(platform) : MarshalCall(v)
    \/ Return

Spec == Init /\ [][Next]_vars

-----------------------------------------------------------------------------
(* Goroutines calling NewObjectId and NewObjectIdSeconds *)

InitId ==
    /\ SeqQuiet
    /\ fieldMap = <<>>
    /\ IdInit
    /\ CacheQuiet

NextId ==
    \/ \E p \in Procs, t \in ClockValues :
          NewObjectIdBegin(p, t) /\ UNCHANGED <<seqVars, fieldMap, cacheVars>>
    \/ \E p \in Procs : CheckMachineId(p) /\ UNCHANGED <<seqVars, fieldMap, cacheVars>>
    \/ \E p \in Procs : Hostname(p) /\ UNCHANGED <<seqVars, fieldMap, cacheVars>>
    \/ \E p \in Procs : StoreMachineId(p) /\ UNCHANGED <<seqVars, fieldMap, cacheVars>>
    \/ \E p \in Procs : StoreMachineIdDone(p) /\ UNCHANGED <<seqVars, fieldMap, cacheVars>>
    \/ \E p \in Procs : CopyMachineId(p) /\ UNCHANGED <<seqVars, fieldMap, cacheVars>>
    \/ \E p \in Procs : Increment(p) /\ UNCHANGED <<seqVars, fieldMap, cacheVars>>
    \/ \E p \in Procs : Finish(p) /\ UNCHANGED <<seqVars, fieldMap, cacheVars>>
    \/ \E p \in Procs, s \in SecondsValues :
          NewObjectIdSecondsCall(p, s) /\ UNCHANGED <<seqVars, fieldMap, cacheVars>>
    \/ \E p \in Procs : IdRelease(p) /\ UNCHANGED <<seqVars, fieldMap, cacheVars>>

SpecId == InitId /\ [][NextId]_vars

-----------------------------------------------------------------------------
(* Goroutines calling getStructFields *)

\* the structure types looked up: the two types T of two function scopes, Person, an
\* anonymous type, one with a duplicated key and one with an unsupported flag
CacheTypes == { typeT(1), typeT(2), typePerson, typeTail(TRUE), typeDup, typeBadFlag }

InitCache ==
    /\ SeqQuiet
    /\ fieldMap = <<>>
    /\ IdQuiet
    /\ CacheQuiet

NextCache ==
    \/ \E p \in Procs, st \in CacheTypes :
          GetStructFieldsCall(p, st) /\ UNCHANGED <<seqVars, idVars>>
    \/ \E p \in Procs : RLock(p) /\ UNCHANGED <<seqVars, idVars>>
    \/ \E p \in Procs : Probe(p) /\ UNCHANGED <<seqVars, idVars>>
    \/ \E p \in Procs : RUnlock(p) /\ UNCHANGED <<seqVars, idVars>>
    \/ \E p \in Procs : Derive(p) /\ UNCHANGED <<seqVars, idVars>>
    \/ \E p \in Procs : Lock(p) /\ UNCHANGED <<seqVars, idVars>>
    \/ \E p \in Procs : Insert(p) /\ UNCHANGED <<seqVars, idVars>>
    \/ \E p \in Procs : Unlock(p) /\ UNCHANGED <<seqVars, idVars>>
    \/ \E p \in Procs : CRelease(p) /\ UNCHANGED <<seqVars, idVars>>

SpecCache == InitCache /\ [][NextCache]_vars

\* the steps goroutine p takes inside getStructFields, from the RLock to the return
CacheStep(p) ==
    /\ \/ RLock(p) \/ Probe(p) \/ RUnlock(p) \/ Derive(p)
       \/ Lock(p) \/ Insert(p) \/ Unlock(p)
    /\ UNCHANGED <<seqVars, idVars>>

\* the scheduler runs every goroutine that can run: a goroutine inside getStructFields
\* that stays able to take its next step takes it.  Callers need not call again.
SpecCacheFair == SpecCache /\ \A p \in Procs : WF_vars(CacheStep(p))

-----------------------------------------------------------------------------
(* Reading BSON back, for stating properties of Marshal's output.  A       *)
(* position is the 0-based offset of the next unread byte; -1 says the     *)
(* bytes are not what the grammar of bsonspec.org allows.                  *)

\* the little-endian int32 at offset pos, or -1 when fewer than 4 bytes are left
LE32At(b, pos) ==
    IF pos + 4 > Len(b) THEN -1 ELSE Word32(SubSeq(b, pos + 1, pos + 4))

RECURSIVE CStrEnd(_, _)
\* the offset just past the cstring starting at pos
CStrEnd(b, pos) ==
    IF pos >= Len(b) THEN -1
    ELSE IF b[pos + 1] = 0 THEN pos + 1
    ELSE CStrEnd(b, pos + 1)

\* the offset just past a length-prefixed string at pos
StringEnd(b, pos) ==
    LET n == LE32At(b, pos)
    IN  IF n < 1 \/ pos + 4 + n > Len(b) THEN -1
        ELSE IF b[pos + 4 + n] # 0 THEN -1
        ELSE pos + 4 + n

RECURSIVE DocEnd(_, _)
RECURSIVE ElemsEnd(_, _, _)
RECURSIVE PayloadEnd(_, _, _)

\* the offset just past the payload of an element of the given kind
PayloadEnd(b, kind, p) ==
    IF p = -1 THEN -1
    ELSE LET fixed(n) == IF p + n > Len(b) THEN -1 ELSE p + n
    IN  CASE kind \in {1, 9, 17, 18} -> fixed(8)
          [] kind \in {2, 13, 14} -> StringEnd(b, p)
          [] kind \in {3, 4} -> DocEnd(b, p)
          [] kind = 5 ->
                LET n == LE32At(b, p)
                IN  IF n < 0 \/ p + 5 + n > Len(b) THEN -1
                    ELSE IF b[p + 5] = 2 /\ LE32At(b, p + 5) # n - 4 THEN -1
                    ELSE p + 5 + n
          [] kind \in {6, 10, 127, 255} -> p
          [] kind = 7 -> fixed(12)
          [] kind = 8 -> fixed(1)
          [] kind = 11 -> LET q == CStrEnd(b, p) IN IF q = -1 THEN -1 ELSE CStrEnd(b, q)
          [] kind = 15 ->
                LET n == LE32At(b, p)
                    q == StringEnd(b, p + 4)
                    r == IF q = -1 THEN -1 ELSE DocEnd(b, q)
                IN  IF r = -1 \/ r # p + n THEN -1 ELSE r
          [] kind = 16 -> fixed(4)
          [] OTHER -> -1

\* the elements from p up to limit end exactly at limit
ElemsEnd(b, p, limit) ==
    IF p = limit THEN limit
    ELSE IF p > limit \/ p < 0 THEN -1
    ELSE LET q == CStrEnd(b, p + 1)
         IN  IF q = -1 THEN -1
             ELSE ElemsEnd(b, PayloadEnd(b, b[p + 1], q), limit)

\* a document at pos: its int32 counts itself and the closing 0x00, and its elements
\* fill the room between exactly; nested documents and code-with-scope blocks likewise
DocEnd(b, pos) ==
    LET n == LE32At(b, pos)
    IN  IF n < 5 \/ pos + n > Len(b) THEN -1
        ELSE IF b[pos + n] # 0 THEN -1
        ELSE IF ElemsEnd(b, pos + 4, pos + n - 1) = -1 THEN -1
        ELSE pos + n

WellFormedDoc(b) == DocEnd(b, 0) = Len(b)

RECURSIVE ElemsFrom(_, _, _)
\* the elements of a well-formed document as [kind, name, payload], in order
ElemsFrom(b, p, limit) ==
    IF p >= limit THEN <<>>
    ELSE LET q == CStrEnd(b, p + 1)
             r == PayloadEnd(b, b[p + 1], q)
         IN  << [kind |-> b[p + 1], name |-> SubSeq(b, p + 2, q - 1),
                 payload |-> SubSeq(b, q + 1, r)] >> \o ElemsFrom(b, r, limit)

Elements(b) == IF WellFormedDoc(b) THEN ElemsFrom(b, 4, Len(b) - 1) ELSE <<>>

\* the last call returned bytes and a nil error
Succeeded == pc = "done" /\ ~ret.outNil /\ ret.err = "" /\ ret.raised = "none"
\* the last call returned a non-nil error and nil bytes
Failed == pc = "done" /\ ret.outNil /\ ret.err # "" /\ ret.raised = "none"
\* the last call did not return: the panic left Marshal
Escaped == pc = "done" /\ ret.raised \in {"runtime", "other"}

-----------------------------------------------------------------------------
(* Properties of Marshal, checked under Spec *)

RECURSIVE Unwrapped(_)
\* the value addDoc encodes for root v: Getters replaced, pointers followed
Unwrapped(v) ==
    IF v.k = "Ptr" THEN Unwrapped(v.elem)
    ELSE IF v.k = "Struct" /\ v.t = "Getter" /\ v.pan = "none" THEN Unwrapped(v.res)
    ELSE v

IsRawRoot(v) == Unwrapped(v).k = "Struct" /\ Unwrapped(v).t = "Raw"

RECURSIVE HasRaw(_)
\* a Raw occurs somewhere in v
HasRaw(v) ==
    CASE v.k \in {"Interface", "Ptr"} -> HasRaw(v.elem)
      [] v.k = "Map" -> \E j \in 1..Len(v.entries) : HasRaw(v.entries[j].val)
      [] v.k \in {"Slice", "Array"} -> \E j \in 1..Len(v.elems) : HasRaw(v.elems[j])
      [] v.k = "Struct" ->
            IF v.t = "Raw" THEN TRUE
            ELSE IF v.t = "Getter" THEN HasRaw(v.res)
            ELSE \E j \in 1..Len(v.vals) : HasRaw(v.vals[j])
      [] OTHER -> FALSE

\* C1 as stated: whatever root Marshal accepts, a Raw of kind 0x00 or 0x03 included,
\* the int32 at the head of the returned bytes equals their length, and every
\* document, array and code-with-scope block nested in them is sized the same way.
C1_AnyRootLengthPrefix ==
    Succeeded =>
        /\ LE32At(ret.out, 0) = Len(ret.out)
        /\ ~HasRaw(in) => WellFormedDoc(ret.out)

\* C1, amended: for every accepted root other than a Raw the int32 at the head of the
\* returned bytes equals their length, the last byte is 0x00, and (no Raw bytes being
\* spliced in) every nested document, array and code-with-scope block is sized the
\* same way; a Raw root of kind 0x00 or 0x03 comes back as its Data, byte for byte.
C1_LengthPrefix ==
    Succeeded =>
        IF IsRawRoot(in)
        THEN ret.out = Unwrapped(in).data
        ELSE /\ LE32At(ret.out, 0) = Len(ret.out)
             /\ ret.out[Len(ret.out)] = 0
             /\ ~HasRaw(in) => WellFormedDoc(ret.out)

\* a map holding code with a scope: three length prefixes, nested
C1_Witness ==
    /\ Succeeded
    /\ in = M1(s_k, JS(s_x, M1(s_a, BoolV(TRUE))))
    /\ Len(ret.out) = 27
    /\ LE32At(ret.out, 0) = 27
    /\ LE32At(ret.out, 7) = 19
    /\ LE32At(ret.out, 17) = 9
    /\ WellFormedDoc(ret.out)

\* the root is one of the three shapes Marshal is documented to take
RootIsDocument(v) ==
    LET u == Unwrapped(v)
    IN  u.k \in {"Map", "Struct"} \/ (u.k = "Slice" /\ u.t = "D")

\* C2: Marshal succeeds only for a root that is a map, a structure or a D; for any
\* other root it returns an error and no bytes.
C2_DocumentRootsOnly ==
    pc = "done" =>
        /\ Succeeded => RootIsDocument(in)
        /\ in.k # "Invalid" /\ ~RootIsDocument(in) => Failed

\* the inputs that run into each fatal encode error
NonDocumentRoot(v) ==
    Unwrapped(v).k \in {"String", "Bool", "Float64", "Chan"} \cup SignedKinds \cup UnsignedKinds
IsOne(v) == v.k = "Struct" /\ v.t = "struct" /\ \E f \in FlagSuffixes : v.st = typeOne(f)
TooLargeUnsigned(v) == IsOne(v) /\ v.vals[1].k \in UnsignedKinds /\ v.vals[1].u.hi < 0
BadObjectId(v) ==
    \/ v = M1(s_k, ObjectId(<<1, 2, 3>>))
    \/ v = D(<< DocElem(s_k, ObjectId(<<1, 2, 3>>)) >>)
BadRawRoot(v) == IsRawRoot(v) /\ Unwrapped(v).kind \notin {0, 3}
IsStructOf(v, st) == Unwrapped(v).k = "Struct" /\ Unwrapped(v).t = "struct" /\ Unwrapped(v).st = st
RuntimeFault(v) ==
    \/ v = M1(s_k, SliceV("Blob", "Uint8", << Byte8(1) >>))
    \/ v = GetterV("runtime", Invalid)
    \/ v = M1(s_k, GetterV("runtime", Invalid))
OtherPanic(v) ==
    \/ v = GetterV("other", Invalid)
    \/ v = D(<< DocElem(s_k, GetterV("other", Invalid)) >>)

\* C3: each fatal encode error (a root that is no document, an unsigned value of
\* 2^63 or more, an ObjectId not 12 bytes long, a Raw root of another kind, a
\* duplicated field key, an unsupported tag flag) comes back from Marshal as a
\* non-nil error with nil bytes and does not leave it as a panic; a panic that is a
\* runtime fault, or neither a string nor an error value, leaves Marshal as it was
\* raised and is not turned into an error.
C3_ErrorsReturnedFaultsReraised ==
    pc = "done" =>
        /\ Succeeded \/ Failed \/ Escaped
        /\ NonDocumentRoot(in) => Failed /\ ret.err = "Can't marshal as a BSON document"
        /\ TooLargeUnsigned(in) => Failed /\ ret.err = "BSON has no uint64 type"
        /\ BadObjectId(in) => Failed /\ ret.err = "ObjectIDs must be exactly 12 bytes long"
        /\ BadRawRoot(in) => Failed /\ ret.err = "Attempted to unmarshal Raw kind as a document"
        /\ IsStructOf(in, typeDup) => Failed /\ ret.err = "Duplicated key"
        /\ IsStructOf(in, typeBadFlag) => Failed /\ ret.err = "Unsupported field flag"
        /\ RuntimeFault(in) => Escaped /\ ret.raised = "runtime" /\ ret.err = ""
        /\ OtherPanic(in) => Escaped /\ ret.raised = "other" /\ ret.err = ""

\* a duplicated key: the os.Error getStructFields returns, raised by addStruct
C3_Witness ==
    /\ Failed
    /\ IsStructOf(in, typeDup)
    /\ in.k = "Ptr"
    /\ ret.err = "Duplicated key"

\* the field of structure v that the schema entry info was derived from
FieldOfEntry(v, info) == v.vals[info.Num + 1]

KeysOf(b) == { Elements(b)[j].name : j \in 1..Len(Elements(b)) }

IsPlainStruct(v) == v.k = "Struct" /\ v.t = "struct"

\* C4: a field with the conditional flag is left out exactly when its value is zero
\* (empty string, nil pointer or interface, empty map or slice, integer 0, false), a
\* field without the flag is always emitted, and a non-zero value is encoded to the
\* same bytes with the flag as without it.
C4_ConditionalOmitsZeroOnly ==
    Succeeded /\ IsPlainStruct(in) =>
        /\ \A j \in 1..Len(deriveFields(in.st).fields.List) :
              LET info == deriveFields(in.st).fields.List[j]
              IN  (info.Key \in KeysOf(ret.out))
                      <=> ~(info.Conditional /\ isZero(FieldOfEntry(in, info)))
        /\ IsOne(in) /\ in.st = typeOne(<<47, 99>>) /\ ~isZero(in.vals[1]) =>
              ret.out = Marshal(platform, fieldMap, One(<<>>, in.vals[1])).out

\* the 64-bit integer an int32 or int64 payload stands for
DecodeInt(el) ==
    IF el.kind = 16 THEN Int64OfInt32(Word32(el.payload)) ELSE FromBytes64(el.payload)

FitsInt32(x) == LeqS64(MinInt32_64, x) /\ LeqS64(x, MaxInt32_64)

HasShort(st) == st.fields[1].tag = <<110, 47, 115>>

\* C5: a signed integer that is no Timestamp, MongoTimestamp or OrderKey is emitted
\* as kind 0x10 when its declared width is at most 32 bits, else as 0x10 exactly when
\* the short flag is set and it lies within int32, else as 0x12; the payload always
\* decodes to the value itself, the platform-sized int included.
C5_SignedKindAndValue ==
    Succeeded /\ IsOne(in) /\ in.vals[1].k \in SignedKinds /\ Len(Elements(ret.out)) = 1 =>
        LET x == in.vals[1].i
            el == Elements(ret.out)[1]
        IN  /\ el.kind = IF Width(in.vals[1].k, platform) <= 32 THEN 16
                         ELSE IF HasShort(in.st) /\ FitsInt32(x) THEN 16 ELSE 18
            /\ DecodeInt(el) = x

\* C6 as stated: an unsigned u is emitted as kind 0x10 when u <= MaxInt32 and its
\* declared width is at most 32 bits or the short flag is set; otherwise Marshal
\* fails when u >= 2^63, and emits kind 0x12 when not; the payload decodes to u.
C6_UnsignedByDeclaredWidth ==
    pc = "done" /\ IsOne(in) /\ in.vals[1].k \in UnsignedKinds =>
        LET u == in.vals[1].u
            narrow == LeqU64(u, MaxInt32_64)
                        /\ (Width(in.vals[1].k, platform) <= 32 \/ HasShort(in.st))
        IN  IF ~narrow /\ u.hi < 0 THEN Failed
            ELSE /\ Succeeded
                 /\ Len(Elements(ret.out)) = 1 =>
                       /\ Elements(ret.out)[1].kind = IF narrow THEN 16 ELSE 18
                       /\ DecodeInt(Elements(ret.out)[1]) = u

\* C6, amended: an unsigned u is emitted as kind 0x10 when u <= MaxInt32 and its type
\* is uint, uint8, uint16 or uint32 (uint on any build, uintptr on none) or the short
\* flag is set; otherwise Marshal fails when u >= 2^63, and emits kind 0x12 when not;
\* the payload decodes to u, never to a negative or another number.
C6_UnsignedByKind ==
    pc = "done" /\ IsOne(in) /\ in.vals[1].k \in UnsignedKinds =>
        LET u == in.vals[1].u
            narrow == LeqU64(u, MaxInt32_64)
                        /\ (in.vals[1].k \in {"Uint", "Uint8", "Uint16", "Uint32"}
                            \/ HasShort(in.st))
        IN  IF ~narrow /\ u.hi < 0 THEN Failed
            ELSE /\ Succeeded
                 /\ Len(Elements(ret.out)) = 1 =>
                       /\ Elements(ret.out)[1].kind = IF narrow THEN 16 ELSE 18
                       /\ DecodeInt(Elements(ret.out)[1]) = u

\* a 64-bit uint below 2^31 without the short flag, emitted as an int32
C6_Witness ==
    /\ Succeeded
    /\ platform.intBits = 64
    /\ in = One(<<>>, UintV("Uint", I64(0, 42)))
    /\ Elements(ret.out) = << [kind |-> 16, name |-> <<110>>, payload |-> <<42, 0, 0, 0>>] >>

\* the bytes of the one element addElem emits for (name, v, short)
ElementBytes(name, v, short) ==
    addElem([out |-> <<>>, panic |-> NoPanic, fieldMap |-> fieldMap, plat |-> platform],
            name, v, short).out

\* the bytes of an element read back from a document
BytesOfElement(el) == <<el.kind>> \o el.name \o <<0>> \o el.payload

\* C9: for every structure type, whatever mix of exported and unexported fields, the
\* element emitted under a schema entry's key carries the value of the field the entry
\* was derived from (the field at index Num), and the conditional-zero test is applied
\* to that same field.
C9_EntryReadsItsOwnField ==
    Succeeded /\ IsPlainStruct(in) =>
        \A j \in 1..Len(deriveFields(in.st).fields.List) :
            LET info == deriveFields(in.st).fields.List[j]
                own == FieldOfEntry(in, info)
            IN  /\ (info.Key \in KeysOf(ret.out)) <=> ~(info.Conditional /\ isZero(own))
                /\ \A i \in 1..Len(Elements(ret.out)) :
                      Elements(ret.out)[i].name = info.Key =>
                          BytesOfElement(Elements(ret.out)[i])
                              = ElementBytes(info.Key, own, info.Short)

\* the root is a map or a D with exactly one element
HasOneElem(v) ==
    \/ v.k = "Map" /\ Len(v.entries) = 1
    \/ v.k = "Slice" /\ v.t = "D" /\ Len(v.elems) = 1

\* the value of that one element, out of the interface{} that holds it
OneElemValue(v) ==
    IF v.k = "Map" THEN v.entries[1].val.elem ELSE v.elems[1].vals[2].elem

\* x is a slice whose element type is DocElem, whatever the slice type is called
IsDocElemSeq(x) == x.k = "Slice" /\ x.et = "DocElem"

\* C13: an element value that is a sequence of DocElem, of type D or of any other
\* slice type, is emitted as kind 0x03 holding one element per DocElem, in order, named
\* by DocElem.Name and carrying DocElem.Value.
C13_DocElemSeqIsOrderedDoc ==
    Succeeded /\ HasOneElem(in) /\ IsDocElemSeq(OneElemValue(in)) =>
        /\ Len(Elements(ret.out)) = 1
        /\ Elements(ret.out)[1].kind = 3
        /\ LET x == OneElemValue(in)
               body == Elements(Elements(ret.out)[1].payload)
           IN  /\ Len(body) = Len(x.elems)
               /\ \A i \in 1..Len(x.elems) :
                     BytesOfElement(body[i])
                         = ElementBytes(x.elems[i].vals[1].s, x.elems[i].vals[2].elem, FALSE)

-----------------------------------------------------------------------------
(* Properties of the ObjectId generator, checked under SpecId *)

TwoTo24 == 256 * 65536

\* the ids NewObjectId has returned, as a set of history positions
Returned == 1 .. Len(idHist)

\* the goroutines holding an incremented value they have not yet returned
InFlight == { p \in Procs : idProc[p].pc = "fin" }

\* C7: counting the increments of the global counter from 0 on, the id made from the
\* k-th increment has Counter() = k mod 2^24, whatever the interleaving of the callers:
\* consecutive increments give counters one apart (mod 2^24), no two ids returned share
\* a counter, and no counter value between them is skipped.
C7_CounterIsKthIncrement ==
    /\ \A j \in Returned :
          IdCounter(idHist[j].id) = ((idEnv.counter0 % TwoTo24) + idHist[j].ord) % TwoTo24
    /\ \A j, k \in Returned :
          j # k => IdCounter(idHist[j].id) # IdCounter(idHist[k].id)
    /\ { idHist[j].ord : j \in Returned } \cup { idProc[p].ord : p \in InFlight }
          = 1 .. idIncs
    /\ Cardinality(Returned) + Cardinality(InFlight) = idIncs

\* two goroutines raced past 2^24: the one that incremented second returned first
C7_Witness ==
    /\ Len(idHist) = 2
    /\ idEnv.counter0 = TwoTo24 - 2
    /\ idHist[1].p # idHist[2].p
    /\ IdCounter(idHist[1].id) = 0
    /\ IdCounter(idHist[2].id) = TwoTo24 - 1

\* C8: for every int32 s, negative ones included, NewObjectIdSeconds(s) is 12 bytes
\* long, its Timestamp() is s, its bytes 4..11 are zero (Machine() is three zero bytes,
\* Pid() and Counter() are 0), and the call changes neither the global counter nor the
\* machine fingerprint.
C8_SecondsRoundTrip ==
    /\ [](\A p \in Procs :
            idProc[p].res.op = "seconds" =>
                LET id == idProc[p].res.id
                IN  /\ Len(id) = 12
                    /\ IdTimestamp(id) = idProc[p].res.sec
                    /\ SubSeq(id, 5, 12) = << 0, 0, 0, 0, 0, 0, 0, 0 >>
                    /\ IdMachine(id) = << 0, 0, 0 >>
                    /\ IdPid(id) = 0
                    /\ IdCounter(id) = 0)
    /\ [][(\E p \in Procs : idProc[p].pc = "idle" /\ idProc'[p].res.op = "seconds")
            => UNCHANGED <<objectIdCounter, machineId>>]_vars

\* a negative number of seconds, asked for while the counter and the fingerprint are in use
C8_Witness ==
    \E p, q \in Procs :
        /\ idProc[p].res.op = "seconds"
        /\ idProc[p].res.sec = MinInt32
        /\ idProc[p].res.id = << 128, 0, 0, 0, 0, 0, 0, 0, 0, 0, 0, 0 >>
        /\ idProc[q].pc = "fin"
        /\ machineId.state = "set"

\* goroutine p starts the assignment machineId = sum[:] in this step
WritesMachineId(p) == idProc[p].pc = "store" /\ idProc'[p].pc = "stored"

\* goroutine p reads machineId in this step: the nil test, or the three index reads
ReadsMachineId(p) ==
    idProc[p].pc \in {"check", "copy"} /\ idProc'[p].pc # idProc[p].pc

\* C12: across any interleaving of NewObjectId calls the machine fingerprint global is
\* written at most once (a write finds it nil, and nothing is being written), it is
\* never read while half written, and bytes 4..6 of every id returned are the fingerprint.
C12_MachineIdWrittenOnce ==
    /\ [][\A p \in Procs :
            /\ WritesMachineId(p) => machineId = NilSlice
            /\ ReadsMachineId(p) => machineId.state # "torn"]_vars
    /\ [](\A k \in 1..Len(idHist) : IdMachine(idHist[k].id) = idEnv.sum)

-----------------------------------------------------------------------------
(* Properties of the schema cache, checked under SpecCache *)

\* the call of p has returned a schema and no error
Looked(p) == cProc[p].pc = "done" /\ cProc[p].err = ""

\* C10: every call of getStructFields(T) for a named structure type T, on a miss or on
\* a hit and under any interleaving of callers, returns the schema a fresh derivation
\* of T gives, and when it has returned the cache entry for T is that schema.
C10_LookupEqualsFreshDerivation ==
    \A p \in Procs :
        Looked(p) /\ cProc[p].st.name # <<>> =>
            /\ cProc[p].fields = deriveFields(cProc[p].st).fields
            /\ fullNameOf(cProc[p].st) \in DOMAIN fieldMap
            /\ fieldMap[fullNameOf(cProc[p].st)] = deriveFields(cProc[p].st).fields

\* the call of p has returned the entry its probe found in the cache
Hit(p) == cProc[p].pc = "done" /\ cProc[p].found

\* C14: a cache hit never returns another type's schema: what a hit returns for T is
\* the list derived from T's own fields, and an entry of the cache is the schema of
\* every type whose key (package path + "." + name) it is stored under, same-named
\* types of different function scopes included.
C14_KeyIdentifiesOneType ==
    /\ \A p \in Procs : Hit(p) => cProc[p].fields = deriveFields(cProc[p].st).fields
    /\ \A st \in CacheTypes :
          fullNameOf(st) \in DOMAIN fieldMap =>
              fieldMap[fullNameOf(st)] = deriveFields(st).fields

\* the goroutines between RLock and RUnlock, and those between Lock and Unlock
Reading == { p \in Procs : cProc[p].pc \in {"probe", "RUnlock"} }
Writing == { p \in Procs : cProc[p].pc \in {"insert", "Unlock"} }

\* the derivation of st ends in the duplicate-key error or the unsupported-flag panic
DerivationFails(st) ==
    deriveFields(st).err # "" \/ deriveFields(st).panic.class # "none"

\* the locks as the protocol has them: held by exactly the goroutines probing and the
\* one inserting, a writer alone, and no key in the cache for a type that is anonymous
\* or whose derivation fails
LockProtocol ==
    /\ fieldMapMutex.readers = Reading
    /\ Cardinality(Writing) <= 1
    /\ \A p \in Procs : fieldMapMutex.writer = p <=> p \in Writing
    /\ fieldMapMutex.writer \in Procs \cup {0}
    /\ Writing # {} => Reading = {}
    /\ \A p \in Procs :
          cProc[p].pc \in {"idle", "RLock", "derive", "Lock", "done", "panicked"} =>
              p \notin fieldMapMutex.readers /\ fieldMapMutex.writer # p
    /\ <<46>> \notin DOMAIN fieldMap
    /\ \A st \in CacheTypes : DerivationFails(st) => fullNameOf(st) \notin DOMAIN fieldMap

\* the cache changes only in the insert of a goroutine that holds the writer lock, has
\* derived a schema with no error for a named type, and stores that schema under the
\* type's key; every other step of every call leaves the cache as it was
CacheChangesOnlyByInsert ==
    fieldMap' # fieldMap =>
        \E p \in Procs :
            /\ cProc[p].pc = "insert" /\ cProc'[p].pc = "Unlock"
            /\ fieldMapMutex.writer = p /\ fieldMapMutex.readers = {}
            /\ ~DerivationFails(cProc[p].st)
            /\ fullNameOf(cProc[p].st) # <<46>>
            /\ DOMAIN fieldMap' = DOMAIN fieldMap \cup {fullNameOf(cProc[p].st)}
            /\ fieldMap'[fullNameOf(cProc[p].st)] = deriveFields(cProc[p].st).fields
            /\ \A k \in DOMAIN fieldMap \ {fullNameOf(cProc[p].st)} : fieldMap'[k] = fieldMap[k]

\* C11: the reader lock is held only for the probe and the writer lock only for the
\* insert, no lock is held during a derivation, a writer excludes every reader and every
\* other writer, every exit (hit, derivation, duplicate-key error, unsupported-flag
\* panic) leaves no lock held, the failing exits leave the cache unchanged, anonymous
\* types are never inserted, and under fair scheduling every call returns.
C11_LockProtocolAndProgress ==
    /\ []LockProtocol
    /\ [][CacheChangesOnlyByInsert]_vars
    /\ \A p \in Procs : (cProc[p].pc # "idle") ~> (cProc[p].pc \in {"done", "panicked"})

\* one goroutine inserts under the writer lock while the other, past a miss, derives
\* with no lock, and an earlier call has already filled the cache
C11_Witness ==
    \E p, q \in Procs :
        /\ p # q
        /\ cProc[p].pc = "insert" /\ fieldMapMutex = [readers |-> {}, writer |-> p]
        /\ cProc[q].pc = "derive" /\ DerivationFails(cProc[q].st)
        /\ fieldMap # <<>>

====
